---- MODULE Spec2Model ----
(***************************************************************************)
(* Model of tudatpy/kernel/expose_simulation/expose_astro_setup.cpp.       *)
(*                                                                         *)
(* expose_astro_setup(m) registers one function on the Python module m:    *)
(*   m.def("create_transfer_trajectory", &tms::createTransferTrajectory,   *)
(*         py::arg("bodies"), py::arg("leg_settings"),                     *)
(*         py::arg("node_settings"), py::arg("node_names"),                *)
(*         py::arg("central_body"));                                       *)
(* A second m.def ("defaut_mga_no_dsm_settings", eight py::arg) is         *)
(* commented out.                                                          *)
(*                                                                         *)
(* The model follows one call of the registered function through the       *)
(* steps the m.def wrapper performs: look the name up on the module, bind  *)
(* positional and keyword arguments to the five py::arg slots, convert     *)
(* each Python value to the C++ parameter type, invoke the C++ function,   *)
(* and hand its result or its exception back to the caller.                *)
(***************************************************************************)
EXTENDS Integers, Sequences, FiniteSets, TLC

VARIABLES
    m,          \* the functions defined on the module (py::module &m)
    pc,         \* "unloaded", "idle", "called", "external", "returned" or "done"
    call,       \* the call in progress: function name, positional and keyword arguments
    extArgs,    \* the arguments the C++ function was invoked with
    extCalls,   \* how often the current call has invoked the C++ function
    extOutcome, \* what the C++ function returned or threw
    outcome,    \* what the caller gets: a result or a Python exception
    heap        \* version of each object the caller passes; the C++ function may advance it

vars == <<m, pc, call, extArgs, extCalls, extOutcome, outcome, heap>>

(* ----------------------------- bounds ---------------------------------- *)
\* distinct values the caller has of each Python type
NumIds == 2
\* distinct transfer-trajectory objects the external function can return
NumResults == 2
\* distinct messages an exception of the external function can carry
NumMessages == 2
\* how many times the external function can modify one caller object
MaxVersion == 1

(* ------------------------ what the file registers ---------------------- *)
\* the py::arg names of the registered function, in order
ArgNames == <<"bodies", "leg_settings", "node_settings", "node_names", "central_body">>

\* the three further py::arg names of the commented-out m.def
DisabledArgNames == <<"node_times", "leg_free_parameters", "node_free_parameters">>

\* the C++ parameter types of tms::createTransferTrajectory, by position
ParamTypes == <<"SystemOfBodies", "vector<TransferLegSettings>", "vector<TransferNodeSettings>", "vector<string>", "string">>

\* the m.def that is compiled
ActiveDefinition == [name |-> "create_transfer_trajectory", target |-> "createTransferTrajectory", args |-> ArgNames]

\* the m.def that is commented out
DisabledDefinition == [name |-> "defaut_mga_no_dsm_settings", target |-> "createTransferTrajectory", args |-> ArgNames \o DisabledArgNames]

\* a plausible slip: the commented-out block compiled as well
Definitions_withDisabled == {ActiveDefinition, DisabledDefinition}

\* the functions expose_astro_setup defines on the module
Definitions == {ActiveDefinition}

(* ------------------------------ values --------------------------------- *)
NoValue == [type |-> "none", id |-> 0]

\* the Python type a type caster of the C++ type accepts
PyTypeFor(ctype) ==
    CASE ctype = "SystemOfBodies" -> "SystemOfBodies"
      [] ctype = "vector<TransferLegSettings>" -> "list[TransferLegSettings]"
      [] ctype = "vector<TransferNodeSettings>" -> "list[TransferNodeSettings]"
      [] ctype = "vector<string>" -> "list[str]"
      [] ctype = "string" -> "str"
      [] OTHER -> "none"

\* class types are passed by reference; stl.h containers and strings are copied
ByReference(ctype) == ctype = "SystemOfBodies"

Range(s) == {s[i] : i \in 1..Len(s)}

FunctionNames == {ActiveDefinition.name, DisabledDefinition.name}

(* --------------------- the wrapper m.def generates --------------------- *)
\* no py::arg of the file carries a default value ("py::arg(...) = v")
HasDefault(name) == FALSE

\* the keyword arguments of a call as written, collected into one mapping
KeywordDict(kwseq) ==
    [n \in {kwseq[i][1] : i \in 1..Len(kwseq)} |->
        kwseq[CHOOSE i \in 1..Len(kwseq) : kwseq[i][1] = n][2]]

\* a slip in the py::arg list: two names in each other's place
BindArguments_swappedNames(names, args, kwargs) ==
    LET sw == [i \in 1..Len(names) |->
                 IF i = 2 /\ Len(names) >= 3 THEN names[3]
                 ELSE IF i = 3 THEN names[2] ELSE names[i]]
        n == Len(args)
    IN  IF \/ n > Len(sw)
           \/ \E i \in 1..n : sw[i] \in DOMAIN kwargs
           \/ \E i \in (n + 1)..Len(sw) : sw[i] \notin DOMAIN kwargs
           \/ \E k \in DOMAIN kwargs : k \notin Range(sw)
        THEN [ok |-> FALSE, slots |-> <<>>]
        ELSE [ok |-> TRUE,
              slots |-> [i \in 1..Len(sw) |-> IF i <= n THEN args[i] ELSE kwargs[sw[i]]]]

\* a binder that hands the keywords to the open slots back to front
BindArguments_keywordsByPosition(names, args, kwargs) ==
    LET n == Len(args)
        N == Len(names)
    IN  IF \/ n > N
           \/ \E i \in 1..n : names[i] \in DOMAIN kwargs
           \/ \E i \in (n + 1)..N : names[i] \notin DOMAIN kwargs
           \/ \E k \in DOMAIN kwargs : k \notin Range(names)
        THEN [ok |-> FALSE, slots |-> <<>>]
        ELSE [ok |-> TRUE,
              slots |-> [i \in 1..N |-> IF i <= n THEN args[i] ELSE kwargs[names[N + n + 1 - i]]]]

\* a slip in the binder: a keyword that repeats a positional argument wins
BindArguments_keywordOverrides(names, args, kwargs) ==
    LET n == Len(args)
    IN  IF \/ n > Len(names)
           \/ \E i \in (n + 1)..Len(names) : names[i] \notin DOMAIN kwargs
        THEN [ok |-> FALSE, slots |-> <<>>]
        ELSE [ok |-> TRUE,
              slots |-> [i \in 1..Len(names) |->
                           IF names[i] \in DOMAIN kwargs THEN kwargs[names[i]] ELSE args[i]]]

\* positional arguments fill the first slots; every further slot is looked up
\* by its py::arg name among the keywords; too many positionals, a keyword
\* repeating a positional, a slot left empty or a keyword no slot has fail
BindArguments(names, args, kwargs) ==
    LET n == Len(args)
    IN  IF \/ n > Len(names)
           \/ \E i \in 1..n : names[i] \in DOMAIN kwargs
           \/ \E i \in (n + 1)..Len(names) :
                 names[i] \notin DOMAIN kwargs /\ ~HasDefault(names[i])
           \/ \E k \in DOMAIN kwargs : k \notin Range(names)
        THEN [ok |-> FALSE, slots |-> <<>>]
        ELSE [ok |-> TRUE,
              slots |-> [i \in 1..Len(names) |->
                           IF i <= n THEN args[i]
                           ELSE IF names[i] \in DOMAIN kwargs THEN kwargs[names[i]]
                           ELSE NoValue]]

\* a validating caster: rejects a value the C++ type would accept
LoadArgument_validating(v, ctype) ==
    [ok |-> v.type = PyTypeFor(ctype) /\ v.id # 1, value |-> [ctype |-> ctype, id |-> v.id]]

\* the type caster of one parameter: a value of the matching Python type
\* converts to the C++ value with the same content, any other does not load
LoadArgument(v, ctype) ==
    [ok |-> v.type = PyTypeFor(ctype), value |-> [ctype |-> ctype, id |-> v.id]]

ParamTypeOf(i) == IF i \in 1..Len(ParamTypes) THEN ParamTypes[i] ELSE "none"

\* argument_loader: every bound slot through the caster of its parameter
LoadArguments(slots) ==
    [ok |-> \A i \in 1..Len(slots) : LoadArgument(slots[i], ParamTypeOf(i)).ok,
     values |-> [i \in 1..Len(slots) |-> LoadArgument(slots[i], ParamTypeOf(i)).value]]

\* a destructive conversion: the caller's containers are emptied
HeapAfterLoad_moving(h, names) ==
    [n \in DOMAIN h |-> IF n \in Range(names) /\ n # names[1] THEN -1 ELSE h[n]]

\* converting the arguments reads the caller's objects and leaves them as they are
HeapAfterLoad(h, names) == h

\* return_value_policy::copy instead of sharing the holder
CastResult_copy(r) ==
    [kind |-> "return", class |-> "TransferTrajectory", what |-> 0, ref |-> r + NumResults]

\* the returned shared_ptr becomes the Python object that refers to it
CastResult(r) ==
    [kind |-> "return", class |-> "TransferTrajectory", what |-> 0, ref |-> r]

CppExceptions == {"std::runtime_error", "std::invalid_argument"}

\* every exception reported as one generic error
TranslateException_generic(class, what) ==
    [kind |-> "error", class |-> "RuntimeError", what |-> 0, ref |-> 0]

\* a C++ exception reaches the caller as the Python exception of its class,
\* carrying the same message
TranslateException(class, what) ==
    [kind |-> "error",
     class |-> CASE class = "std::runtime_error" -> "RuntimeError"
                 [] class = "std::invalid_argument" -> "ValueError"
                 [] OTHER -> "RuntimeError",
     what |-> what, ref |-> 0]

\* the errors the call boundary itself raises
TypeError == [kind |-> "error", class |-> "TypeError", what |-> 0, ref |-> 0]

AttributeError == [kind |-> "error", class |-> "AttributeError", what |-> 0, ref |-> 0]

NoOutcome == [kind |-> "none", class |-> "", what |-> 0, ref |-> 0]

NoCall == [fname |-> "", args |-> <<>>, kwargs |-> <<>>]

FreshHeap == [n \in Range(ArgNames) |-> 0]

(* ----------------------------- the caller ------------------------------ *)
\* the Python type of the value a caller holds for a name
PyTypeOfName(n) ==
    IF n \in Range(ArgNames)
    THEN PyTypeFor(ParamTypes[CHOOSE i \in 1..Len(ArgNames) : ArgNames[i] = n])
    ELSE "list[float]"

\* the value the caller passes for name n: its own value for that name, or,
\* for the one name wrong, an integer
ValueFor(n, id, wrong) ==
    [type |-> IF n = wrong THEN "int" ELSE PyTypeOfName(n), id |-> id]

\* the calls a caller makes: a function name, a positional prefix of the
\* documented order (possibly one value too many), keywords for any subset of
\* the five names with at most one of the disabled names, and at most one
\* value of the wrong type
Calls ==
    {[fname |-> f,
      args |-> [i \in 1..p |-> IF i <= Len(ArgNames) THEN ValueFor(ArgNames[i], id, wrong)
                               ELSE [type |-> "int", id |-> id]],
      kwargs |-> [n \in kw \cup extra |-> ValueFor(n, id, wrong)]] :
        f \in FunctionNames, id \in 1..NumIds, p \in 0..(Len(ArgNames) + 1),
        kw \in SUBSET Range(ArgNames),
        extra \in {{}} \cup {{x} : x \in Range(DisabledArgNames)},
        wrong \in Range(ArgNames) \cup {"none"}}

(* ------------------------------- state --------------------------------- *)
\* the module before expose_astro_setup has run on it
Init ==
    /\ m = {}
    /\ pc = "unloaded"
    /\ call = NoCall
    /\ extArgs = <<>>
    /\ extCalls = 0
    /\ extOutcome = NoOutcome
    /\ outcome = NoOutcome
    /\ heap = FreshHeap

\* expose_astro_setup(m): every compiled m.def adds its function to the module
ExposeAstroSetup ==
    /\ pc = "unloaded"
    /\ m' = m \cup Definitions
    /\ pc' = "idle"
    /\ UNCHANGED <<call, extArgs, extCalls, extOutcome, outcome, heap>>

\* a caller calls an attribute of the module with some arguments
Call ==
    /\ pc = "idle"
    /\ \E c \in Calls : call' = c
    /\ pc' = "called"
    /\ extArgs' = <<>>
    /\ extCalls' = 0
    /\ extOutcome' = NoOutcome
    /\ outcome' = NoOutcome
    /\ heap' = FreshHeap
    /\ UNCHANGED m

Registered(f) == \E d \in m : d.name = f

DefinitionOf(f) == CHOOSE d \in m : d.name = f

Bound == BindArguments(DefinitionOf(call.fname).args, call.args, call.kwargs)

\* the module has no attribute of that name
LookupFails ==
    /\ pc = "called"
    /\ ~Registered(call.fname)
    /\ outcome' = AttributeError
    /\ pc' = "done"
    /\ UNCHANGED <<m, call, extArgs, extCalls, extOutcome, heap>>

\* the arguments do not fit the py::arg slots, or a value does not convert:
\* the wrapper raises TypeError and the C++ function is not called
DispatchRejects ==
    /\ pc = "called"
    /\ Registered(call.fname)
    /\ ~Bound.ok \/ ~LoadArguments(Bound.slots).ok
    /\ outcome' = TypeError
    /\ pc' = "done"
    /\ UNCHANGED <<m, call, extArgs, extCalls, extOutcome, heap>>

\* the arguments fit and convert: the wrapper calls the C++ function with them
DispatchInvokes ==
    /\ pc = "called"
    /\ Registered(call.fname)
    /\ Bound.ok /\ LoadArguments(Bound.slots).ok
    /\ extArgs' = LoadArguments(Bound.slots).values
    /\ extCalls' = extCalls + 1
    /\ heap' = HeapAfterLoad(heap, DefinitionOf(call.fname).args)
    /\ pc' = "external"
    /\ UNCHANGED <<m, call, extOutcome, outcome>>

\* what the C++ function may do to the caller's objects: nothing, or modify one
\* it reaches by reference
ExternalEffects(h) ==
    {h} \cup {[h EXCEPT ![ArgNames[i]] = h[ArgNames[i]] + 1] :
                i \in {j \in 1..Len(ArgNames) :
                         ByReference(ParamTypes[j]) /\ h[ArgNames[j]] \in 0..(MaxVersion - 1)}}

\* tms::createTransferTrajectory returns a transfer trajectory
ExternalReturns ==
    /\ pc = "external"
    /\ \E r \in 1..NumResults :
          extOutcome' = [kind |-> "return", class |-> "", what |-> 0, ref |-> r]
    /\ \E h \in ExternalEffects(heap) : heap' = h
    /\ pc' = "returned"
    /\ UNCHANGED <<m, call, extArgs, extCalls, outcome>>

\* tms::createTransferTrajectory throws
ExternalThrows ==
    /\ pc = "external"
    /\ \E c \in CppExceptions, w \in 1..NumMessages :
          extOutcome' = [kind |-> "throw", class |-> c, what |-> w, ref |-> 0]
    /\ \E h \in ExternalEffects(heap) : heap' = h
    /\ pc' = "returned"
    /\ UNCHANGED <<m, call, extArgs, extCalls, outcome>>

\* a wrapper that calls the C++ function again after it threw
Finish_retrying ==
    /\ pc = "returned"
    /\ IF extOutcome.kind = "throw" /\ extCalls < 2
       THEN /\ pc' = "external"
            /\ extCalls' = extCalls + 1
            /\ extOutcome' = NoOutcome
            /\ UNCHANGED outcome
       ELSE /\ pc' = "done"
            /\ outcome' = IF extOutcome.kind = "return" THEN CastResult(extOutcome.ref)
                          ELSE TranslateException(extOutcome.class, extOutcome.what)
            /\ UNCHANGED <<extCalls, extOutcome>>
    /\ UNCHANGED <<m, call, extArgs, heap>>

\* the wrapper hands the result, or the exception, of the C++ function to the caller
Finish ==
    /\ pc = "returned"
    /\ outcome' = IF extOutcome.kind = "return" THEN CastResult(extOutcome.ref)
                  ELSE TranslateException(extOutcome.class, extOutcome.what)
    /\ pc' = "done"
    /\ UNCHANGED <<m, call, extArgs, extCalls, extOutcome, heap>>

\* the caller has taken the outcome; the frame of the call is gone
CallerResumes ==
    /\ pc = "done"
    /\ pc' = "idle"
    /\ call' = NoCall
    /\ extArgs' = <<>>
    /\ extCalls' = 0
    /\ extOutcome' = NoOutcome
    /\ outcome' = NoOutcome
    /\ heap' = FreshHeap
    /\ UNCHANGED m

Next ==
    \/ ExposeAstroSetup
    \/ Call
    \/ LookupFails
    \/ DispatchRejects
    \/ DispatchInvokes
    \/ ExternalReturns
    \/ ExternalThrows
    \/ Finish
    \/ CallerResumes

Spec == Init /\ [][Next]_vars

(* ------------------- the caller's view of a call ------------------------ *)
EntryPoint == "create_transfer_trajectory"

DocumentedNames == <<"bodies", "leg_settings", "node_settings", "node_names", "central_body">>

\* the call names each of the five arguments exactly once, and nothing else
ExactlyOnce(c) ==
    /\ Len(c.args) <= Len(DocumentedNames)
    /\ DOMAIN c.kwargs \subseteq Range(DocumentedNames)
    /\ \A i \in 1..Len(DocumentedNames) :
          (i <= Len(c.args)) # (DocumentedNames[i] \in DOMAIN c.kwargs)

\* the value the call gives to the i-th documented name
GivenValue(c, i) ==
    IF i <= Len(c.args) THEN c.args[i] ELSE c.kwargs[DocumentedNames[i]]

\* every given value has the Python type of its parameter
WellTyped(c) ==
    \A i \in 1..Len(DocumentedNames) : GivenValue(c, i).type = PyTypeFor(ParamTypes[i])

Accepted(c) == c.fname = EntryPoint /\ ExactlyOnce(c) /\ WellTyped(c)

Injective(s) == \A i, j \in DOMAIN s : s[i] = s[j] => i = j

\* the orders in which the names after the first k can be written
Orders(k) ==
    {o \in [1..(Len(DocumentedNames) - k) -> (k + 1)..Len(DocumentedNames)] : Injective(o)}

\* every way of writing the assignment of call c: the first k names
\* positionally, the others as keywords in any order
EquivalentForms(c) ==
    UNION {{[args |-> [i \in 1..k |-> GivenValue(c, i)],
             kwseq |-> [j \in 1..(Len(DocumentedNames) - k) |->
                          <<DocumentedNames[o[j]], GivenValue(c, o[j])>>]] : o \in Orders(k)} :
           k \in 0..Len(DocumentedNames)}

\* what the wrapper passes to the C++ function for a call written as form f
Forwarded(f) ==
    LET b == BindArguments(ActiveDefinition.args, f.args, KeywordDict(f.kwseq))
    IN  IF b.ok /\ LoadArguments(b.slots).ok THEN LoadArguments(b.slots).values ELSE <<>>

C2_ErrorPropagates ==
    (pc = "done" /\ extOutcome.kind = "throw") =>
        /\ outcome.kind = "error"
        /\ outcome.what = extOutcome.what
        /\ extOutcome.class = "std::runtime_error" => outcome.class = "RuntimeError"
        /\ extOutcome.class = "std::invalid_argument" => outcome.class = "ValueError"

C2_Witness ==
    /\ pc = "done" /\ extOutcome.kind = "throw"
    /\ extOutcome.class = "std::invalid_argument" /\ extOutcome.what = NumMessages

\* C3: when createTransferTrajectory returns a transfer trajectory, the call
\* of create_transfer_trajectory returns that same object.
C3_ResultReturned ==
    (pc = "done" /\ extOutcome.kind = "return") =>
        /\ outcome.kind = "return"
        /\ outcome.ref = extOutcome.ref

C3_Witness == pc = "done" /\ extOutcome.kind = "return" /\ outcome.ref = NumResults

\* C4 as stated: a call that gives each of the five arguments exactly once
\* fails only if the external function fails.
C4_FailsOnlyIfExternalFails ==
    (pc = "done" /\ call.fname = EntryPoint /\ ExactlyOnce(call) /\ outcome.kind = "error")
        => extOutcome.kind = "throw"

\* C4 (amended): a call that gives each of the five arguments exactly once
\* fails only if the external function fails or a given value is not of its
\* parameter's type; in the second case the call ends in TypeError and the
\* external function is not invoked. Values of the right type are not checked
\* any further.
C4_FailsOnlyIfExternalFailsOrIllTyped ==
    (pc = "done" /\ call.fname = EntryPoint /\ ExactlyOnce(call) /\ outcome.kind = "error") =>
        \/ extOutcome.kind = "throw"
        \/ ~WellTyped(call) /\ outcome = TypeError /\ extCalls = 0

C4_Witness ==
    /\ pc = "done" /\ call.fname = EntryPoint /\ ExactlyOnce(call)
    /\ ~WellTyped(call) /\ outcome = TypeError

\* C5: the steps of the binding leave the caller's bodies, leg settings, node
\* settings, node names and central body as they are; only the external
\* function changes them.
C5_BindingLeavesArgumentsUnchanged ==
    [][(pc \in {"called", "returned"}) => (heap' = heap)]_vars

\* a completed call during which the external function modified an argument
C5_Witness == pc = "done" /\ extCalls = 1 /\ heap # FreshHeap

\* C6: once expose_astro_setup has run, the module has exactly one function
\* of this file, create_transfer_trajectory with the five names; a call that
\* passes node_times, leg_free_parameters or node_free_parameters ends in an
\* error and the external function is not invoked.
C6_OnlyOneEntryPoint ==
    /\ pc # "unloaded" =>
          m = {[name |-> EntryPoint, target |-> "createTransferTrajectory",
                args |-> DocumentedNames]}
    /\ (DOMAIN call.kwargs \cap {"node_times", "leg_free_parameters", "node_free_parameters"} # {}) =>
          /\ extCalls = 0
          /\ pc = "done" => outcome.kind = "error"

C6_Witness ==
    /\ pc = "done" /\ call.fname = EntryPoint /\ outcome.kind = "error"
    /\ "node_times" \in DOMAIN call.kwargs
    /\ \A i \in 1..Len(DocumentedNames) : DocumentedNames[i] \in DOMAIN call.kwargs

\* C7: an accepted call invokes createTransferTrajectory exactly once, and
\* the entry point has an outcome only after that invocation has one; no call
\* invokes it more than once.
C7_ExactlyOneInvocation ==
    /\ extCalls <= 1
    /\ (pc = "done" /\ Accepted(call)) => (extCalls = 1 /\ extOutcome.kind # "none")
    /\ (outcome.kind # "none" /\ extCalls >= 1) => extOutcome.kind # "none"
    /\ pc = "external" => outcome.kind = "none"

C7_Witness == pc = "done" /\ Accepted(call) /\ extCalls = 1 /\ extOutcome.kind = "throw"

\* C8: a call of create_transfer_trajectory with an argument missing, given
\* twice, unknown or in excess ends in an error raised at the call boundary
\* and never invokes createTransferTrajectory.
C8_ArityMismatchRejected ==
    (call.fname = EntryPoint /\ ~ExactlyOnce(call)) =>
        /\ extCalls = 0
        /\ pc = "done" => (outcome = TypeError /\ extOutcome.kind = "none")

\* the last argument is missing, everything else is in place
C8_Witness ==
    /\ pc = "done" /\ call.fname = EntryPoint /\ outcome = TypeError
    /\ Len(call.args) = Len(DocumentedNames) - 1 /\ DOMAIN call.kwargs = {}
    /\ \A i \in 1..Len(call.args) : call.args[i].type = PyTypeFor(ParamTypes[i])

\* C9: the external call depends only on which value is bound to which name:
\* written with the keywords in any order, or with a leading prefix
\* positionally and the rest by keyword, the call forwards the same arguments.
C9_FormIndependent ==
    (pc = "external" /\ call.fname = EntryPoint) =>
        \A f \in EquivalentForms(call) : Forwarded(f) = extArgs

C9_Witness ==
    /\ pc = "external" /\ call.fname = EntryPoint
    /\ Len(call.args) = 2 /\ Cardinality(DOMAIN call.kwargs) = 3

====
